---- MODULE Spec2Model ----
(***************************************************************************)
(* Chat session state machine of src/App.tsx (component App).              *)
(*                                                                         *)
(* State: the React state of App (chatState, error, showLogin, showAuth,   *)
(* showLogoutConfirm), the values App reads from its two contexts          *)
(* (isAuthenticated, currentChatId, the History Store), the requests to    *)
(* generateResponse that have not resolved yet, and the millisecond clock. *)
(* Every event handler is one action; the useEffect hooks that React runs  *)
(* after the handler's render are part of the same action.                 *)
(*                                                                         *)
(* Not modelled: sidebarOpen, uploadedFiles, Message.timestamp and the     *)
(* scroll ref; no handler or effect of App reads them.                     *)
(* ChatInput, RoleSelector, ErrorMessage, AuthContext and                  *)
(* ChatHistoryContext are imported by App.tsx; their behaviour is taken    *)
(* from the specification (section 4 and 6).                               *)
(***************************************************************************)
EXTENDS Integers, Sequences, FiniteSets

VARIABLES
    isAuthenticated,    \* useAuth().isAuthenticated
    apiKeyConfigured,   \* !!import.meta.env.VITE_GEMINI_API_KEY
    showLogin,          \* useState(true)
    showAuth,           \* useState(false)
    showLogoutConfirm,  \* useState(false)
    messages,           \* chatState.messages
    isLoading,          \* chatState.isLoading
    selectedRole,       \* chatState.selectedRole
    error,              \* useState<string | null>(null)
    currentChatId,      \* ChatHistoryContext: active conversation identifier
    saveOut,            \* the saveChatHistory call of the last step, if any
    audit,              \* whether lastSaved is kept (fixed at startup)
    lastSaved,          \* when audit: the payload of the most recent save
    nextChatId,         \* History Store: the identifier of the next new record
    pending,            \* generateResponse calls that have not resolved
    now,                \* Date.now()
    lastOp              \* the handler that ran last, with its argument

vars == <<isAuthenticated, apiKeyConfigured, showLogin, showAuth,
          showLogoutConfirm, messages, isLoading, selectedRole, error,
          currentChatId, saveOut, audit, lastSaved, nextChatId, pending,
          now, lastOp>>

\* the state of the Session State Machine and what it drives
sessionVars == <<isAuthenticated, showLogin, showAuth, showLogoutConfirm,
                 messages, isLoading, selectedRole, error, currentChatId,
                 lastSaved, nextChatId, pending>>

----------------------------------------------------------------------------
\* Bounds

MaxMsgs == 3

MaxPending == 2

MaxChats == 2

----------------------------------------------------------------------------
\* Values

NoError == <<>>

NoChat == 0

StartClock == 10

ExpertRoles == {"Operations", "Maintenance"}

GeneralAI == "General AI"

Roles == ExpertRoles \cup {GeneralAI}

DefaultRole == "Operations"

\* texts are sequences of characters, error messages sequences of words
Texts == { <<>>, <<" ">>, <<"q">> }

Replies == { <<"a">> }

KeyWord == "GEMINI_API_KEY"

ConfigError == <<KeyWord, "is", "not", "configured">>

GenericError == <<"An", "unexpected", "error", "occurred">>

NetworkTimeout == <<"network", "timeout">>

InvalidKey == <<"invalid", KeyWord>>

\* what generateResponse can throw: an Error with a message, or another value
Failures == { [isError |-> TRUE, message |-> NetworkTimeout],
              [isError |-> TRUE, message |-> InvalidKey],
              [isError |-> FALSE, message |-> <<>>] }

----------------------------------------------------------------------------
\* Pure helpers

Digit(d) == CASE d = 0 -> "0" [] d = 1 -> "1" [] d = 2 -> "2" [] d = 3 -> "3"
              [] d = 4 -> "4" [] d = 5 -> "5" [] d = 6 -> "6" [] d = 7 -> "7"
              [] d = 8 -> "8" [] d = 9 -> "9"

RECURSIVE ToString(_)
ToString(n) == IF n < 10 THEN <<Digit(n)>>
               ELSE ToString(n \div 10) \o <<Digit(n % 10)>>

IsBlank(text) == \A i \in 1..Len(text) : text[i] = " "

Includes(msg, word) == \E i \in 1..Len(msg) : msg[i] = word

Message(id, role, content) == [id |-> id, role |-> role, content |-> content]

\* an outstanding generateResponse call; stale records that a logout has
\* happened since the call was issued (the call itself is not affected)
Request(content, role) ==
    [content |-> content, role |-> role, stale |-> FALSE]

MarkStale(reqs) ==
    [i \in 1..Len(reqs) |-> [reqs[i] EXCEPT !.stale = TRUE]]

RemoveAt(s, i) == SubSeq(s, 1, i - 1) \o SubSeq(s, i + 1, Len(s))

hasUserMessage(msgs) == \E i \in 1..Len(msgs) : msgs[i].role = "user"

hasAIResponse(msgs) == \E i \in 1..Len(msgs) : msgs[i].role = "assistant"

\* variant: the condition without the isAuthenticated test
SaveCondition_NoAuthCheck(auth, msgs) ==
    /\ Len(msgs) >= 2
    /\ \E i \in 1..Len(msgs) : msgs[i].role = "user"
    /\ \E i \in 1..Len(msgs) : msgs[i].role = "assistant"

\* the condition under which the auto-save effect calls saveChatHistory
SaveCondition(auth, msgs) ==
    /\ auth
    /\ Len(msgs) >= 2
    /\ hasUserMessage(msgs)
    /\ hasAIResponse(msgs)

\* conversations saved by earlier sessions, as ChatHistoryList offers them
SampleRecord ==
    [id |-> 1,
     messages |-> << Message(ToString(3), "user", <<"p">>),
                     Message(ToString(5), "assistant", <<"r">>) >>,
     role |-> "Maintenance"]

Histories == { SampleRecord }

NoSave == <<>>

Payload(msgs, role) == [messages |-> msgs, role |-> role]

FirstNewChatId == SampleRecord.id + 1

----------------------------------------------------------------------------
\* Render guards (App.tsx 211-217)

LoginPrompt == showLogin /\ ~isAuthenticated

AuthFlow == ~LoginPrompt /\ showAuth

ChatSession == ~LoginPrompt /\ ~showAuth

----------------------------------------------------------------------------
\* The auto-save effect, run after the render that follows a handler.
\* It runs when one of its dependencies (chatState.messages, isAuthenticated,
\* chatState.selectedRole) changed and saves when the condition holds;
\* the message lists are compared by their contents; saveChatHistory writes under the active identifier
\* or, when there is none, creates a record and makes it the active one.

\* variant: selectedRole missing from the dependency list
AutoSaveFires_MessagesOnly(newAuth, newMsgs, newRole) ==
    /\ (newMsgs # messages \/ newAuth # isAuthenticated)
    /\ SaveCondition(newAuth, newMsgs)

AutoSaveFires(newAuth, newMsgs, newRole) ==
    /\ (newMsgs # messages \/ newRole # selectedRole \/ newAuth # isAuthenticated)
    /\ SaveCondition(newAuth, newMsgs)

saveChatHistory(chatId, msgs, role) ==
    LET id == IF chatId = NoChat THEN nextChatId ELSE chatId
    IN  /\ chatId = NoChat => nextChatId < FirstNewChatId + MaxChats
        /\ saveOut' = [id |-> id, messages |-> msgs, role |-> role]
        /\ lastSaved' = IF audit THEN Payload(msgs, role) ELSE lastSaved
        /\ nextChatId' = IF chatId = NoChat THEN nextChatId + 1 ELSE nextChatId
        /\ currentChatId' = id

\* variant: the payload is the message list of the previous render
AutoSave_StaleMessages(newAuth, newMsgs, newRole, chatId) ==
    IF AutoSaveFires(newAuth, newMsgs, newRole)
    THEN saveChatHistory(chatId, messages, newRole)
    ELSE /\ saveOut' = NoSave
         /\ UNCHANGED <<lastSaved, nextChatId>>
         /\ currentChatId' = chatId

AutoSave(newAuth, newMsgs, newRole, chatId) ==
    IF AutoSaveFires(newAuth, newMsgs, newRole)
    THEN saveChatHistory(chatId, newMsgs, newRole)
    ELSE /\ saveOut' = NoSave
         /\ UNCHANGED <<lastSaved, nextChatId>>
         /\ currentChatId' = chatId

----------------------------------------------------------------------------
InitFrom(auths, keys, audited) ==
    /\ isAuthenticated \in auths
    /\ apiKeyConfigured \in keys
    /\ showLogin = ~isAuthenticated
    /\ showAuth = FALSE
    /\ showLogoutConfirm = FALSE
    /\ messages = <<>>
    /\ isLoading = FALSE
    /\ selectedRole = DefaultRole
    /\ error = IF apiKeyConfigured THEN NoError ELSE ConfigError
    /\ currentChatId = NoChat
    /\ saveOut = NoSave
    /\ audit = audited
    /\ lastSaved = NoSave
    /\ nextChatId = FirstNewChatId
    /\ pending = <<>>
    /\ now = StartClock
    /\ lastOp = [name |-> "init", arg |-> <<>>]

Init == InitFrom(BOOLEAN, BOOLEAN, FALSE)

\* an authenticated, configured session whose saves are audited
InitAudit == InitFrom({TRUE}, {TRUE}, TRUE)

----------------------------------------------------------------------------
\* Shell Controller

\* the screen the render guards select
Mode ==
    IF showLogin /\ ~isAuthenticated THEN "LoginPrompt"
    ELSE IF showAuth THEN "AuthFlow"
    ELSE "ChatSession"

\* variant: the login choice opens the auth screen without hiding the prompt
handleLogin_KeepsLogin ==
    /\ LoginPrompt
    /\ showAuth' = TRUE
    /\ lastOp' = [name |-> "handleLogin", arg |-> <<>>]
    /\ UNCHANGED <<isAuthenticated, apiKeyConfigured, audit, showLogin,
                   showLogoutConfirm, messages, isLoading, selectedRole, error,
                   currentChatId, lastSaved, nextChatId, pending, now>>
    /\ saveOut' = NoSave

handleLogin ==
    /\ LoginPrompt
    /\ showLogin' = FALSE
    /\ showAuth' = TRUE
    /\ lastOp' = [name |-> "handleLogin", arg |-> <<>>]
    /\ UNCHANGED <<isAuthenticated, apiKeyConfigured, audit, showLogoutConfirm,
                   messages, isLoading, selectedRole, error, currentChatId,
                   lastSaved, nextChatId, pending, now>>
    /\ saveOut' = NoSave

handleGuestAccess ==
    /\ LoginPrompt
    /\ showLogin' = FALSE
    /\ showAuth' = FALSE
    /\ lastOp' = [name |-> "handleGuestAccess", arg |-> <<>>]
    /\ UNCHANGED <<isAuthenticated, apiKeyConfigured, audit, showLogoutConfirm,
                   messages, isLoading, selectedRole, error, currentChatId,
                   lastSaved, nextChatId, pending, now>>
    /\ saveOut' = NoSave

\* AuthScreen signs the user in; the effect on isAuthenticated (41-46)
\* then hides both screens, and the auto-save effect sees the new flag
AuthSuccess ==
    /\ AuthFlow
    /\ isAuthenticated' = TRUE
    /\ showLogin' = FALSE
    /\ showAuth' = FALSE
    /\ AutoSave(TRUE, messages, selectedRole, currentChatId)
    /\ lastOp' = [name |-> "AuthSuccess", arg |-> <<>>]
    /\ UNCHANGED <<apiKeyConfigured, audit, showLogoutConfirm, messages, isLoading,
                   selectedRole, error, pending, now>>

handleAuthComplete ==
    /\ AuthFlow
    /\ showAuth' = FALSE
    /\ lastOp' = [name |-> "handleAuthComplete", arg |-> <<>>]
    /\ UNCHANGED <<isAuthenticated, apiKeyConfigured, audit, showLogin,
                   showLogoutConfirm, messages, isLoading, selectedRole,
                   error, currentChatId, lastSaved, nextChatId, pending,
                   now>>
    /\ saveOut' = NoSave

armLogout ==
    /\ ChatSession
    /\ isAuthenticated
    /\ showLogoutConfirm' = TRUE
    /\ lastOp' = [name |-> "armLogout", arg |-> <<>>]
    /\ UNCHANGED <<isAuthenticated, apiKeyConfigured, audit, showLogin, showAuth,
                   messages, isLoading, selectedRole, error, currentChatId,
                   lastSaved, nextChatId, pending, now>>
    /\ saveOut' = NoSave

cancelLogout ==
    /\ ChatSession
    /\ showLogoutConfirm
    /\ showLogoutConfirm' = FALSE
    /\ lastOp' = [name |-> "cancelLogout", arg |-> <<>>]
    /\ UNCHANGED <<isAuthenticated, apiKeyConfigured, audit, showLogin, showAuth,
                   messages, isLoading, selectedRole, error, currentChatId,
                   lastSaved, nextChatId, pending, now>>
    /\ saveOut' = NoSave

\* variant: logout without setCurrentChatId(null)
handleLogout_KeepsChatId ==
    /\ ChatSession
    /\ showLogoutConfirm
    /\ isAuthenticated' = FALSE
    /\ messages' = <<>>
    /\ isLoading' = FALSE
    /\ selectedRole' = DefaultRole
    /\ showLogoutConfirm' = FALSE
    /\ showLogin' = TRUE
    /\ AutoSave(FALSE, <<>>, DefaultRole, currentChatId)
    /\ lastOp' = [name |-> "handleLogout", arg |-> <<>>]
    /\ pending' = MarkStale(pending)
    /\ UNCHANGED <<apiKeyConfigured, audit, showAuth, error, now>>

handleLogout_Unarmed ==
    /\ ChatSession
    /\ isAuthenticated
    /\ isAuthenticated' = FALSE
    /\ messages' = <<>>
    /\ isLoading' = FALSE
    /\ selectedRole' = DefaultRole
    /\ showLogoutConfirm' = FALSE
    /\ showLogin' = TRUE
    /\ AutoSave(FALSE, <<>>, DefaultRole, NoChat)
    /\ lastOp' = [name |-> "handleLogout", arg |-> <<>>]
    /\ pending' = MarkStale(pending)
    /\ UNCHANGED <<apiKeyConfigured, audit, showAuth, error, now>>

handleLogout ==
    /\ ChatSession
    /\ showLogoutConfirm
    /\ isAuthenticated' = FALSE
    /\ messages' = <<>>
    /\ isLoading' = FALSE
    /\ selectedRole' = DefaultRole
    /\ showLogoutConfirm' = FALSE
    /\ showLogin' = TRUE
    /\ AutoSave(FALSE, <<>>, DefaultRole, NoChat)
    /\ lastOp' = [name |-> "handleLogout", arg |-> <<>>]
    /\ pending' = MarkStale(pending)
    /\ UNCHANGED <<apiKeyConfigured, audit, showAuth, error, now>>

----------------------------------------------------------------------------
\* Session State Machine

handleSendMessage(content) ==
    IF error # NoError
    THEN UNCHANGED sessionVars /\ saveOut' = NoSave
    ELSE /\ Len(messages) < MaxMsgs
         /\ Len(pending) < MaxPending
         /\ messages' = Append(messages, Message(ToString(now), "user", content))
         /\ isLoading' = TRUE
         /\ pending' = Append(pending, Request(content, selectedRole))
         /\ AutoSave(isAuthenticated, messages', selectedRole, currentChatId)
         /\ UNCHANGED <<isAuthenticated, showLogin, showAuth,
                        showLogoutConfirm, selectedRole, error>>

\* variant: the form forwards empty and whitespace-only text
ChatInputSubmit_NoBlankCheck(text) ==
    /\ ChatSession
    /\ lastOp' = [name |-> "ChatInputSubmit", arg |-> text]
    /\ UNCHANGED <<apiKeyConfigured, audit, now>>
    /\ IF isLoading \/ error # NoError
       THEN UNCHANGED sessionVars /\ saveOut' = NoSave
       ELSE handleSendMessage(text)

\* ChatInput: the form of the input area, disabled by its isLoading prop
ChatInputSubmit(text) ==
    /\ ChatSession
    /\ lastOp' = [name |-> "ChatInputSubmit", arg |-> text]
    /\ UNCHANGED <<apiKeyConfigured, audit, now>>
    /\ IF IsBlank(text) \/ isLoading \/ error # NoError
       THEN UNCHANGED sessionVars /\ saveOut' = NoSave
       ELSE handleSendMessage(text)

\* variant: the success branch does not reset isLoading
ResponseSuccess_StaysLoading(i, aiResponse) ==
    /\ i \in 1..Len(pending)
    /\ Len(messages) < MaxMsgs
    /\ messages' = Append(messages, Message(ToString(now + 1), "assistant", aiResponse))
    /\ isLoading' = isLoading
    /\ pending' = RemoveAt(pending, i)
    /\ AutoSave(isAuthenticated, messages', selectedRole, currentChatId)
    /\ lastOp' = [name |-> "ResponseSuccess", arg |-> aiResponse]
    /\ UNCHANGED <<isAuthenticated, apiKeyConfigured, audit, showLogin,
                   showAuth, showLogoutConfirm, selectedRole, error, now>>

ResponseSuccess(i, aiResponse) ==
    /\ i \in 1..Len(pending)
    /\ Len(messages) < MaxMsgs
    /\ messages' = Append(messages, Message(ToString(now + 1), "assistant", aiResponse))
    /\ isLoading' = FALSE
    /\ pending' = RemoveAt(pending, i)
    /\ AutoSave(isAuthenticated, messages', selectedRole, currentChatId)
    /\ lastOp' = [name |-> "ResponseSuccess", arg |-> aiResponse]
    /\ UNCHANGED <<isAuthenticated, apiKeyConfigured, audit, showLogin, showAuth,
                   showLogoutConfirm, selectedRole, error, now>>

\* variant: the catch branch drops err.message
ResponseFailure_GenericOnly(i, err) ==
    /\ i \in 1..Len(pending)
    /\ isLoading' = FALSE
    /\ error' = GenericError
    /\ pending' = RemoveAt(pending, i)
    /\ AutoSave(isAuthenticated, messages, selectedRole, currentChatId)
    /\ lastOp' = [name |-> "ResponseFailure", arg |-> err]
    /\ UNCHANGED <<isAuthenticated, apiKeyConfigured, audit, showLogin,
                   showAuth, showLogoutConfirm, messages, selectedRole, now>>

ResponseFailure(i, err) ==
    /\ i \in 1..Len(pending)
    /\ isLoading' = FALSE
    /\ error' = IF err.isError THEN err.message ELSE GenericError
    /\ pending' = RemoveAt(pending, i)
    /\ AutoSave(isAuthenticated, messages, selectedRole, currentChatId)
    /\ lastOp' = [name |-> "ResponseFailure", arg |-> err]
    /\ UNCHANGED <<isAuthenticated, apiKeyConfigured, audit, showLogin, showAuth,
                   showLogoutConfirm, messages, selectedRole, now>>

\* variant: a role change starts the conversation over
handleRoleChange_ClearsMessages(role) ==
    /\ selectedRole' = role
    /\ messages' = <<>>
    /\ AutoSave(isAuthenticated, <<>>, role, currentChatId)
    /\ UNCHANGED <<isAuthenticated, showLogin, showAuth, showLogoutConfirm,
                   isLoading, error, pending>>

handleRoleChange(role) ==
    /\ selectedRole' = role
    /\ AutoSave(isAuthenticated, messages, role, currentChatId)
    /\ UNCHANGED <<isAuthenticated, showLogin, showAuth, showLogoutConfirm,
                   messages, isLoading, error, pending>>

\* variant: "General AI" offered to guests as well
RoleSelectorClick_NoGate(role) ==
    /\ ChatSession
    /\ lastOp' = [name |-> "RoleSelectorClick", arg |-> <<role>>]
    /\ UNCHANGED <<apiKeyConfigured, audit, now>>
    /\ handleRoleChange(role)

\* RoleSelector: offers "General AI" to authenticated sessions only
RoleSelectorClick(role) ==
    /\ ChatSession
    /\ lastOp' = [name |-> "RoleSelectorClick", arg |-> <<role>>]
    /\ UNCHANGED <<apiKeyConfigured, audit, now>>
    /\ IF role = GeneralAI /\ ~isAuthenticated
       THEN UNCHANGED sessionVars /\ saveOut' = NoSave
       ELSE handleRoleChange(role)

\* variant: the loaded record's role is not applied
handleLoadChat_KeepsRole(history) ==
    /\ ChatSession
    /\ isAuthenticated
    /\ messages' = history.messages
    /\ isLoading' = FALSE
    /\ AutoSave(isAuthenticated, history.messages, selectedRole, history.id)
    /\ lastOp' = [name |-> "handleLoadChat", arg |-> <<history.id>>]
    /\ UNCHANGED <<isAuthenticated, apiKeyConfigured, audit, showLogin, showAuth,
                   showLogoutConfirm, selectedRole, error, pending, now>>

handleLoadChat(history) ==
    /\ ChatSession
    /\ isAuthenticated
    /\ messages' = history.messages
    /\ selectedRole' = history.role
    /\ isLoading' = FALSE
    /\ AutoSave(isAuthenticated, history.messages, history.role, history.id)
    /\ lastOp' = [name |-> "handleLoadChat", arg |-> <<history.id>>]
    /\ UNCHANGED <<isAuthenticated, apiKeyConfigured, audit, showLogin, showAuth,
                   showLogoutConfirm, error, pending, now>>

\* variant: a new chat also falls back to the default role
handleNewChat_ResetsRole ==
    /\ ChatSession
    /\ isAuthenticated
    /\ messages' = <<>>
    /\ isLoading' = FALSE
    /\ selectedRole' = DefaultRole
    /\ AutoSave(isAuthenticated, <<>>, DefaultRole, NoChat)
    /\ lastOp' = [name |-> "handleNewChat", arg |-> <<>>]
    /\ UNCHANGED <<isAuthenticated, apiKeyConfigured, audit, showLogin, showAuth,
                   showLogoutConfirm, error, pending, now>>

handleNewChat ==
    /\ ChatSession
    /\ isAuthenticated
    /\ messages' = <<>>
    /\ isLoading' = FALSE
    /\ AutoSave(isAuthenticated, <<>>, selectedRole, NoChat)
    /\ lastOp' = [name |-> "handleNewChat", arg |-> <<>>]
    /\ UNCHANGED <<isAuthenticated, apiKeyConfigured, audit, showLogin, showAuth,
                   showLogoutConfirm, selectedRole, error, pending, now>>

clearError ==
    /\ error' = NoError
    /\ UNCHANGED <<isAuthenticated, showLogin, showAuth, showLogoutConfirm,
                   messages, isLoading, selectedRole, currentChatId,
                   lastSaved, nextChatId, pending>>

\* variant: the retry control leaves the error in place
ErrorRetryClick_NeverClears ==
    /\ ChatSession
    /\ error # NoError
    /\ lastOp' = [name |-> "ErrorRetryClick", arg |-> error]
    /\ UNCHANGED <<apiKeyConfigured, audit, now>>
    /\ UNCHANGED sessionVars /\ saveOut' = NoSave

\* variant: onRetry wired to clearError for every error
ErrorRetryClick_AlwaysClears ==
    /\ ChatSession
    /\ error # NoError
    /\ lastOp' = [name |-> "ErrorRetryClick", arg |-> error]
    /\ UNCHANGED <<apiKeyConfigured, audit, now>>
    /\ clearError /\ saveOut' = NoSave

\* ErrorMessage: the banner's retry control calls onRetry when it is given
ErrorRetryClick ==
    /\ ChatSession
    /\ error # NoError
    /\ lastOp' = [name |-> "ErrorRetryClick", arg |-> error]
    /\ UNCHANGED <<apiKeyConfigured, audit, now>>
    /\ IF Includes(error, KeyWord)
       THEN UNCHANGED sessionVars /\ saveOut' = NoSave
       ELSE clearError /\ saveOut' = NoSave

----------------------------------------------------------------------------
Next ==
    \/ handleLogin
    \/ handleGuestAccess
    \/ AuthSuccess
    \/ handleAuthComplete
    \/ armLogout
    \/ cancelLogout
    \/ handleLogout
    \/ \E text \in Texts : ChatInputSubmit(text)
    \/ \E i \in 1..MaxPending, aiResponse \in Replies : ResponseSuccess(i, aiResponse)
    \/ \E i \in 1..MaxPending, err \in Failures : ResponseFailure(i, err)
    \/ \E role \in Roles : RoleSelectorClick(role)
    \/ \E history \in Histories : handleLoadChat(history)
    \/ handleNewChat
    \/ ErrorRetryClick

Spec == Init /\ [][Next]_vars

\* the operations of an authenticated chat session
NextAudit ==
    \/ \E text \in Texts : ChatInputSubmit(text)
    \/ \E i \in 1..MaxPending, aiResponse \in Replies : ResponseSuccess(i, aiResponse)
    \/ \E i \in 1..MaxPending, err \in Failures : ResponseFailure(i, err)
    \/ \E role \in Roles : RoleSelectorClick(role)
    \/ \E history \in Histories : handleLoadChat(history)
    \/ handleNewChat

SpecAudit == InitAudit /\ [][NextAudit]_vars

----------------------------------------------------------------------------
\* Millisecond clock

\* the last clock value the model lets Date.now() reach
MaxClock == StartClock + MaxMsgs

\* Date.now() advances by a millisecond between two handler runs
Tick ==
    /\ now < MaxClock
    /\ now' = now + 1
    /\ lastOp' = [name |-> "Tick", arg |-> <<>>]
    /\ saveOut' = NoSave
    /\ UNCHANGED <<apiKeyConfigured, audit>>
    /\ UNCHANGED sessionVars

\* an authenticated or guest chat session with the credential configured
InitClock == InitFrom(BOOLEAN, {TRUE}, FALSE)

NextClock ==
    \/ Tick
    \/ handleGuestAccess
    \/ \E text \in Texts : ChatInputSubmit(text)
    \/ \E i \in 1..MaxPending, aiResponse \in Replies : ResponseSuccess(i, aiResponse)
    \/ \E i \in 1..MaxPending, err \in Failures : ResponseFailure(i, err)
    \/ ErrorRetryClick
    \/ handleNewChat

SpecClock == InitClock /\ [][NextClock]_vars

----------------------------------------------------------------------------
\* Claims

LastMessage == messages[Len(messages)]

\* C1: at most one AI Responder request is outstanding in every reachable
\* state (single-flight).
C1_SingleFlight == Len(pending) <= 1

\* C2: a send with non-empty text issued in Idle appends exactly the user
\* message with the sent text and issues one request; when that request
\* succeeds with nothing interleaved, exactly the assistant message with the
\* returned text is appended after it and the session is Idle again, so the
\* round trip adds exactly 2 messages, user then assistant.
C2_RoundTripAddsTwo ==
    [][ /\ ( /\ lastOp'.name = "ChatInputSubmit"
             /\ ~IsBlank(lastOp'.arg)
             /\ ~isLoading /\ error = NoError /\ pending = <<>> )
           => /\ Len(messages') = Len(messages) + 1
              /\ SubSeq(messages', 1, Len(messages)) = messages
              /\ messages'[Len(messages')].role = "user"
              /\ messages'[Len(messages')].content = lastOp'.arg
              /\ isLoading'
              /\ pending' = << Request(lastOp'.arg, selectedRole) >>
        /\ ( /\ lastOp'.name = "ResponseSuccess"
             /\ lastOp.name = "ChatInputSubmit"
             /\ isLoading /\ Len(pending) = 1 )
           => /\ Len(messages') = Len(messages) + 1
              /\ SubSeq(messages', 1, Len(messages)) = messages
              /\ LastMessage.role = "user"
              /\ LastMessage.content = pending[1].content
              /\ messages'[Len(messages')].role = "assistant"
              /\ messages'[Len(messages')].content = lastOp'.arg
              /\ ~isLoading'
              /\ pending' = <<>>
      ]_vars

\* a completed round trip in a fresh conversation
C2_Witness ==
    /\ lastOp.name = "ResponseSuccess"
    /\ Len(messages) = 2
    /\ messages[1].role = "user" /\ messages[1].content = <<"q">>
    /\ messages[2].role = "assistant" /\ messages[2].content = <<"a">>
    /\ ~isLoading
    /\ pending = <<>>

C5_SaveOnlyWhenConditionHolds ==
    saveOut # NoSave =>
        /\ isAuthenticated
        /\ Len(messages) >= 2
        /\ \E i \in 1..Len(messages) : messages[i].role = "user"
        /\ \E i \in 1..Len(messages) : messages[i].role = "assistant"

C5_Witness ==
    /\ saveOut # NoSave
    /\ lastOp.name = "ResponseSuccess"
    /\ isAuthenticated

ChangedToQualifying ==
    /\ isAuthenticated'
    /\ (messages' # messages \/ selectedRole' # selectedRole)
    /\ Len(messages') >= 2
    /\ \E i \in 1..Len(messages') : messages'[i].role = "user"
    /\ \E i \in 1..Len(messages') : messages'[i].role = "assistant"

\* C7 (as stated): a save is triggered exactly once per distinct qualifying
\* (message sequence, role) snapshot: none is skipped, and none is saved
\* twice, so no save repeats the payload of the save before it.
C7_ExactlyOncePerSnapshot ==
    [][ /\ ChangedToQualifying => saveOut' # NoSave
        /\ saveOut' # NoSave
           => Payload(saveOut'.messages, saveOut'.role) # lastSaved
      ]_vars

\* C7 (amended): every step that changes the (message sequence, role)
\* snapshot to one satisfying the save condition triggers a save of exactly
\* that snapshot, so none is skipped; a snapshot that recurs is saved again.
C7_SavedOnEveryChange ==
    [][ ChangedToQualifying
        => /\ saveOut' # NoSave
           /\ saveOut'.messages = messages'
           /\ saveOut'.role = selectedRole'
      ]_vars

C7_Witness ==
    /\ lastOp.name = "RoleSelectorClick"
    /\ saveOut # NoSave
    /\ saveOut.role = selectedRole
    /\ saveOut.messages = messages
    /\ selectedRole = GeneralAI

\* C8: when the AI Responder fails, the loading flag is false afterwards,
\* no message is appended (a fresh conversation holds only the user's
\* message), the current error is the failure's message, and no save is
\* triggered when the conversation has no assistant message.
C8_FailureReturnsToIdle ==
    [][ lastOp'.name = "ResponseFailure"
        => /\ ~isLoading'
           /\ messages' = messages
           /\ lastOp'.arg.isError => error' = lastOp'.arg.message
           /\ error' # NoError
           /\ (~\E i \in 1..Len(messages') : messages'[i].role = "assistant")
              => saveOut' = NoSave
      ]_vars

C8_Witness ==
    /\ lastOp.name = "ResponseFailure"
    /\ lastOp.arg.message = NetworkTimeout
    /\ Len(messages) = 1
    /\ messages[1].role = "user"
    /\ error = NetworkTimeout
    /\ ~isLoading
    /\ saveOut = NoSave

\* C9: when the AI credential is missing at startup the session is Blocked
\* for good: the configuration error stays the current error, no send ever
\* appends a message or issues a request, and the error cannot be cleared.
C9_BlockedForever ==
    ~apiKeyConfigured
    => /\ error = ConfigError
       /\ pending = <<>>
       /\ ~isLoading
       /\ \/ messages = <<>>
          \/ \E history \in Histories : messages = history.messages

C9_Witness ==
    /\ ~apiKeyConfigured
    /\ ChatSession
    /\ lastOp.name = "ErrorRetryClick"
    /\ error = ConfigError

\* C10: after logout, from any prior state, the message sequence is empty,
\* the active conversation identifier is cleared and the Shell Controller
\* is in LoginPrompt.
C10_LogoutResets ==
    lastOp.name = "handleLogout"
    => /\ messages = <<>>
       /\ currentChatId = NoChat
       /\ LoginPrompt
       /\ ~AuthFlow /\ ~ChatSession

C10_Witness ==
    /\ lastOp.name = "handleLogout"
    /\ pending # <<>>
    /\ error # NoError

\* C11: the logout reset runs only from the armed confirmation: a
\* handleLogout step starts with showLogoutConfirm set and ends with it
\* cleared; the confirmation becomes set only by the logout request
\* (armLogout) and is cleared by Cancel, so an armed state was requested and
\* not cancelled since; arming or cancelling changes neither the
\* conversation nor the authentication state.
C11_LogoutOnlyWhenArmed ==
    [][ /\ (lastOp'.name = "handleLogout" =>
              showLogoutConfirm /\ ~showLogoutConfirm')
        /\ (~showLogoutConfirm /\ showLogoutConfirm' =>
              lastOp'.name = "armLogout")
        /\ (lastOp'.name = "cancelLogout" => ~showLogoutConfirm')
        /\ (lastOp'.name \in {"armLogout", "cancelLogout"} =>
              UNCHANGED <<isAuthenticated, messages, isLoading, selectedRole,
                          currentChatId, error, pending, showLogin,
                          showAuth>>) ]_vars

C11_Witness ==
    /\ lastOp.name = "handleLogout"
    /\ ~showLogoutConfirm
    /\ ~isAuthenticated
    /\ LoginPrompt

\* C12: after handleNewChat, from any state, the message sequence is empty,
\* isLoading is false, the active conversation id is cleared and the
\* selected role is the one selected before the step.
C12_NewChatResets ==
    [][ lastOp'.name = "handleNewChat" =>
          /\ messages' = <<>>
          /\ ~isLoading'
          /\ currentChatId' = NoChat
          /\ selectedRole' = selectedRole ]_vars

\* a new chat started with a request in flight and a non-default role
C12_Witness ==
    /\ lastOp.name = "handleNewChat"
    /\ pending # <<>>
    /\ selectedRole # DefaultRole
    /\ messages = <<>>
    /\ currentChatId = NoChat

\* C13: handleLoadChat(record), from any state, replaces the message
\* sequence and the role with exactly the record's, leaves isLoading false
\* and makes the record's id the active conversation id; a later save, as
\* long as no other load, new chat or logout changed the active id, is made
\* under that id and so updates the record.
C13_LoadReplaces ==
    [][ /\ (lastOp'.name = "handleLoadChat" =>
              \E h \in Histories :
                  /\ lastOp'.arg = <<h.id>>
                  /\ messages' = h.messages
                  /\ selectedRole' = h.role
                  /\ ~isLoading'
                  /\ currentChatId' = h.id)
        /\ (/\ currentChatId # NoChat
            /\ saveOut' # NoSave
            /\ lastOp'.name \notin {"handleLoadChat", "handleNewChat",
                                    "handleLogout"}
            => saveOut'.id = currentChatId /\ currentChatId' = currentChatId)
      ]_vars

\* a record loaded with a request in flight
C13_Witness ==
    /\ lastOp.name = "handleLoadChat"
    /\ pending # <<>>
    /\ messages = SampleRecord.messages
    /\ selectedRole = SampleRecord.role
    /\ currentChatId = SampleRecord.id
    /\ saveOut # NoSave
    /\ ~isLoading

\* the step appends a user message with the submitted text and issues a
\* request for it
SendAccepted ==
    /\ Len(messages') = Len(messages) + 1
    /\ SubSeq(messages', 1, Len(messages)) = messages
    /\ messages'[Len(messages')].role = "user"
    /\ messages'[Len(messages')].content = lastOp'.arg
    /\ Len(pending') = Len(pending) + 1
    /\ pending'[Len(pending')].content = lastOp'.arg
    /\ isLoading'

\* C14 as stated: a non-empty send made right after a request failure,
\* with no clearError in between, is accepted.
C14_ImmediateResend ==
    [][ /\ lastOp.name = "ResponseFailure"
        /\ lastOp'.name = "ChatInputSubmit"
        /\ ~IsBlank(lastOp'.arg)
        => SendAccepted ]_vars

\* C14: a request failure is retryable once its error is cleared: while an
\* error is current a send changes neither the messages nor the requests;
\* the retry control of the banner, offered for a message without the
\* configuration keyword, clears the error and nothing else; and a
\* non-empty send made with no error and isLoading false is accepted.
C14_ResendAfterClear ==
    [][ /\ (lastOp'.name = "ChatInputSubmit" /\ error # NoError =>
              UNCHANGED <<messages, pending, isLoading, error>>)
        /\ (lastOp'.name = "ErrorRetryClick" /\ ~Includes(error, KeyWord) =>
              /\ error' = NoError
              /\ UNCHANGED <<messages, pending, isLoading, selectedRole>>)
        /\ (/\ lastOp'.name = "ChatInputSubmit"
            /\ ~IsBlank(lastOp'.arg)
            /\ error = NoError
            /\ ~isLoading
            => SendAccepted) ]_vars

\* a resend accepted after a failed first request was cleared: two user
\* messages, the first request resolved without a reply, the second in flight
C14_Witness ==
    /\ lastOp.name = "ChatInputSubmit"
    /\ Len(messages) = 2
    /\ messages[1].role = "user"
    /\ messages[2].role = "user"
    /\ Len(pending) = 1
    /\ isLoading
    /\ error = NoError
    /\ currentChatId = NoChat

\* C15 as stated: with the credential configured at startup every current
\* error is a request error, and the retry control clears it without
\* appending a message or issuing a request.
C15_RequestErrorClearable ==
    [][ lastOp'.name = "ErrorRetryClick" /\ apiKeyConfigured =>
          /\ error' = NoError
          /\ UNCHANGED <<messages, pending>> ]_vars

\* the mode changes the shell allows, each with the operation that makes it
ModeStep ==
    \/ Mode' = Mode
    \/ Mode = "LoginPrompt" /\ Mode' = "AuthFlow"
           /\ lastOp'.name = "handleLogin"
    \/ Mode = "LoginPrompt" /\ Mode' = "ChatSession"
           /\ lastOp'.name = "handleGuestAccess"
    \/ Mode = "AuthFlow" /\ Mode' = "ChatSession"
           /\ lastOp'.name \in {"AuthSuccess", "handleAuthComplete"}
    \/ Mode = "ChatSession" /\ Mode' = "LoginPrompt"
           /\ lastOp'.name = "handleLogout"

\* every operation of the shell makes the mode change the claim gives it
ModeOps ==
    /\ (lastOp'.name = "handleLogin" => Mode' = "AuthFlow")
    /\ (lastOp'.name = "handleGuestAccess" => Mode' = "ChatSession")
    /\ (lastOp'.name \in {"AuthSuccess", "handleAuthComplete"} =>
          Mode' = "ChatSession")
    /\ (lastOp'.name = "handleLogout" => Mode' = "LoginPrompt")

\* C16: the shell starts in LoginPrompt, or in ChatSession when the user is
\* already authenticated; the login and auth flags are never both set, so
\* exactly one of the three screens is selected; the mode changes only
\* LoginPrompt -> AuthFlow on the login choice, LoginPrompt -> ChatSession
\* on guest access, AuthFlow -> ChatSession on completion (success or
\* skip) and ChatSession -> LoginPrompt on logout.
C16_ShellModes ==
    /\ Mode = (IF isAuthenticated THEN "ChatSession" ELSE "LoginPrompt")
    /\ [](~(showLogin /\ showAuth))
    /\ [](LoginPrompt <=> Mode = "LoginPrompt")
    /\ [](AuthFlow <=> Mode = "AuthFlow")
    /\ [](ChatSession <=> Mode = "ChatSession")
    /\ [][ModeStep /\ ModeOps]_vars

\* back at the login prompt after the logout of an authenticated session
C16_Witness ==
    /\ lastOp.name = "handleLogout"
    /\ Mode = "LoginPrompt"
    /\ showLogin /\ ~showAuth /\ ~isAuthenticated

ResetOps == {"handleLoadChat", "handleNewChat", "handleLogout"}

\* C17 as stated: after handleLoadChat, handleNewChat and handleLogout no
\* request error is current (with the credential configured every error is
\* a request error).
C17_ResetClearsError ==
    lastOp.name \in ResetOps /\ apiKeyConfigured => error = NoError

\* C18 as stated: isLoading is true exactly when a request is outstanding.
C18_LoadingIffOutstanding ==
    isLoading <=> pending # <<>>

\* C19 as stated: the assistant message a reply appends comes right after
\* the user message of the request it answers: when a request resolves, the
\* last message of the conversation is the user message carrying that
\* request's text.
C19_ReplyFollowsItsQuestion ==
    [][ lastOp'.name = "ResponseSuccess" =>
          \E i \in 1..Len(pending) :
              /\ pending' = RemoveAt(pending, i)
              /\ messages # <<>>
              /\ LastMessage.role = "user"
              /\ LastMessage.content = pending[i].content
              /\ messages' = Append(messages, messages'[Len(messages')])
              /\ messages'[Len(messages')].role = "assistant" ]_vars

\* C20: every step other than handleLoadChat, handleNewChat and
\* handleLogout leaves the previous message sequence, unmodified, as a
\* prefix of the new one; a role change and a clearError leave it exactly
\* unchanged, with a request in flight as well as without.
C20_AppendOnly ==
    [][ /\ (lastOp'.name \notin ResetOps =>
              /\ Len(messages') >= Len(messages)
              /\ SubSeq(messages', 1, Len(messages)) = messages)
        /\ (lastOp'.name \in {"RoleSelectorClick", "ErrorRetryClick"} =>
              messages' = messages) ]_vars

\* a role change applied with a request in flight and messages present
C20_Witness ==
    /\ lastOp.name = "RoleSelectorClick"
    /\ selectedRole = lastOp.arg[1]
    /\ selectedRole # DefaultRole
    /\ isLoading
    /\ pending # <<>>
    /\ messages # <<>>

\* C21 as stated: no two messages of the conversation have the same
\* identifier, whatever the clock values at which sends and responses run.
C21_UniqueIds ==
    \A i, j \in 1..Len(messages) :
        i # j => messages[i].id # messages[j].id

\* the same, for a send made one millisecond after the reply before it
C21_UniqueIdsAcrossTick ==
    [][ /\ lastOp.name = "Tick"
        /\ lastOp'.name = "ChatInputSubmit"
        /\ C21_UniqueIds
        => C21_UniqueIds' ]_vars

\* the step resolves, with a reply, a request issued before a logout
StaleReplyStep ==
    /\ lastOp'.name = "ResponseSuccess"
    /\ \E i \in 1..Len(pending) :
           pending[i].stale /\ pending' = RemoveAt(pending, i)

\* the payload a later authenticated session saves never holds such a reply
C22_StaleReplyNotSaved ==
    [][ StaleReplyStep => saveOut' = NoSave ]_vars

\* C22 as stated: after a logout, the reply to a request issued before it
\* is never appended to the conversation of a later session and never part
\* of a payload a later session saves, also when the logout happened with
\* the request outstanding.
C22_SessionIsolation ==
    [][ StaleReplyStep => messages' = messages /\ saveOut' = NoSave ]_vars

====
